---- MODULE Spec2Model ----
(***************************************************************************)
(* human-chrono-parser: symbolic relative-date expressions, their          *)
(* resolution against a pivot date (HumanDateExpr::relative_to), and the   *)
(* per-locale grammars that produce them (parse, extract_all).             *)
(*                                                                         *)
(* Dates are the proleptic Gregorian calendar dates of chrono::NaiveDate,  *)
(* records [year, month, day]; the date arithmetic of chrono is modelled   *)
(* by day numbers counted from 0001-01-01 = 1 (num_days_from_ce).          *)
(***************************************************************************)
EXTENDS Integers, Sequences, FiniteSets, TLC

VARIABLES
    op,        \* the operation called: "relative_to", "parse" or "extract_all"
    pc,        \* position of the call: "call" before it ran, "scan" inside the loop
               \* of extract_all, "done" once it returned
    now,       \* relative_to: the pivot date
    expr,      \* relative_to: the expression being resolved
    resolved,  \* relative_to: Some(date), None, or Panic (an unwrap that aborted)
    locale,    \* parse, extract_all: the locale
    input,     \* parse, extract_all: the text
    cursor,    \* extract_all: position in the text of the input not yet consumed
    start,     \* extract_all: the cursor at which the current turn of repeat began
    items,     \* extract_all: the expressions accumulated by repeat
    output     \* parse: Ok(expr) or Err; extract_all: the Vec returned

vars == <<op, pc, now, expr, resolved, locale, input, cursor, start, items, output>>

----------------------------------------------------------------------------
(* Option<NaiveDate> and the abort of Option::unwrap                       *)

None == [tag |-> "None"]
Some(d) == [tag |-> "Some", date |-> d]
Panic == [tag |-> "Panic"]
Pending == [tag |-> "Pending"]

\* Option::unwrap inside Some(...): a None aborts the call.
unwrap_propagating(o) == o
unwrap(o) == IF o = None THEN Panic ELSE o

----------------------------------------------------------------------------
(* chrono: Weekday, Month                                                  *)

Weekdays == {"Mon", "Tue", "Wed", "Thu", "Fri", "Sat", "Sun"}
Months == {"January", "February", "March", "April", "May", "June", "July",
           "August", "September", "October", "November", "December"}

number_from_monday(w) ==
    CASE w = "Mon" -> 1 [] w = "Tue" -> 2 [] w = "Wed" -> 3 [] w = "Thu" -> 4
      [] w = "Fri" -> 5 [] w = "Sat" -> 6 [] w = "Sun" -> 7

number_from_sunday(w) ==
    CASE w = "Sun" -> 1 [] w = "Mon" -> 2 [] w = "Tue" -> 3 [] w = "Wed" -> 4
      [] w = "Thu" -> 5 [] w = "Fri" -> 6 [] w = "Sat" -> 7

number_from_month(m) ==
    CASE m = "January" -> 1 [] m = "February" -> 2 [] m = "March" -> 3
      [] m = "April" -> 4 [] m = "May" -> 5 [] m = "June" -> 6
      [] m = "July" -> 7 [] m = "August" -> 8 [] m = "September" -> 9
      [] m = "October" -> 10 [] m = "November" -> 11 [] m = "December" -> 12

----------------------------------------------------------------------------
(* chrono: NaiveDate                                                       *)

I32_MAX == 2147483647
\* chrono: MAX_YEAR = (i32::MAX >> 13) - 1; NaiveDate::MAX = MAX_YEAR-12-31.
MAX_YEAR == (I32_MAX \div 8192) - 1

Date(y, m, d) == [year |-> y, month |-> m, day |-> d]

IsLeapYear(y) == (y % 4 = 0 /\ y % 100 # 0) \/ y % 400 = 0

DaysInMonth(y, m) ==
    IF m = 2 THEN (IF IsLeapYear(y) THEN 29 ELSE 28)
    ELSE IF m \in {4, 6, 9, 11} THEN 30 ELSE 31

\* NaiveDate::from_ymd_opt: None unless the day exists in the calendar.
from_ymd_opt(y, m, d) ==
    IF m \in 1..12 /\ d >= 1 /\ d <= DaysInMonth(y, m) /\ y <= MAX_YEAR
    THEN Some(Date(y, m, d)) ELSE None

CumulativeDays == <<0, 31, 59, 90, 120, 151, 181, 212, 243, 273, 304, 334>>

\* Datelike::ordinal: the day of the year, from 1.
OrdinalOfDate(dt) ==
    CumulativeDays[dt.month] + dt.day
      + (IF dt.month > 2 /\ IsLeapYear(dt.year) THEN 1 ELSE 0)

\* Datelike::num_days_from_ce: 0001-01-01 is day 1.
num_days_from_ce(dt) ==
    LET y1 == dt.year - 1
    IN  365 * y1 + (y1 \div 4) - (y1 \div 100) + (y1 \div 400) + OrdinalOfDate(dt)

MonthOfOrdinal(y, o) ==
    LET leap == IF IsLeapYear(y) THEN 1 ELSE 0
        before(m) == CumulativeDays[m] + (IF m > 2 THEN leap ELSE 0)
    IN  CHOOSE m \in 1..12 :
            /\ before(m) < o
            /\ (m = 12 \/ o <= before(m + 1))

\* NaiveDate::from_num_days_from_ce_opt for a day number in range.
from_num_days_from_ce(n) ==
    LET n0   == n - 1
        c400 == n0 \div 146097
        r400 == n0 % 146097
        c100 == IF r400 \div 36524 > 3 THEN 3 ELSE r400 \div 36524
        r100 == r400 - c100 * 36524
        c4   == r100 \div 1461
        r4   == r100 % 1461
        c1   == IF r4 \div 365 > 3 THEN 3 ELSE r4 \div 365
        y    == 400 * c400 + 100 * c100 + 4 * c4 + c1 + 1
        o    == r4 - c1 * 365 + 1
        m    == MonthOfOrdinal(y, o)
        leap == IF m > 2 /\ IsLeapYear(y) THEN 1 ELSE 0
    IN  Date(y, m, o - CumulativeDays[m] - leap)

MAX_DATE == Date(MAX_YEAR, 12, 31)

\* Datelike::weekday: day 1 (0001-01-01) is a Monday.
weekday_of(dt) ==
    LET r == num_days_from_ce(dt) % 7
    IN  CASE r = 0 -> "Sun" [] r = 1 -> "Mon" [] r = 2 -> "Tue" [] r = 3 -> "Wed"
          [] r = 4 -> "Thu" [] r = 5 -> "Fri" [] r = 6 -> "Sat"

\* NaiveDate::checked_add_days(Days::new(n)): None when n exceeds i32::MAX or
\* the sum lies after NaiveDate::MAX.
checked_add_days(dt, n) ==
    IF n > I32_MAX THEN None
    ELSE IF n > num_days_from_ce(MAX_DATE) - num_days_from_ce(dt) THEN None
    ELSE Some(from_num_days_from_ce(num_days_from_ce(dt) + n))

\* NaiveDate::from_weekday_of_month_opt(year, month, weekday, n).
from_weekday_of_month_opt_week_late(y, m, w, n) ==
    IF n = 0 THEN None
    ELSE IF from_ymd_opt(y, m, 1) = None THEN None
    ELSE from_ymd_opt(y, m, n * 7 + 1
             + ((7 + number_from_monday(w)
                   - number_from_monday(weekday_of(Date(y, m, 1)))) % 7))
from_weekday_of_month_opt(y, m, w, n) ==
    IF n = 0 THEN None
    ELSE IF from_ymd_opt(y, m, 1) = None THEN None
    ELSE LET first == weekday_of(Date(y, m, 1))
             first_to_dow == (7 + number_from_monday(w) - number_from_monday(first)) % 7
             day == (n - 1) * 7 + first_to_dow + 1
         IN  from_ymd_opt(y, m, day)

----------------------------------------------------------------------------
(* HumanDateKeyword, Ordinal, HumanDateExpr                                *)

HumanDateKeyword == {"Today", "Tomorrow", "AfterTomorrow"}
Ordinals == {"First", "Second", "Third", "Fourth", "Fifth"}

Keyword(k) == [kind |-> "Keyword", keyword |-> k]
InNDays(n) == [kind |-> "InNDays", n |-> n]
ThisWeekWeekday(w) == [kind |-> "ThisWeekWeekday", weekday |-> w]
NextWeekWeekday(w) == [kind |-> "NextWeekWeekday", weekday |-> w]
OrdinalWeekdayOfMonth(o, w, m) ==
    [kind |-> "OrdinalWeekdayOfMonth", ordinal |-> o, weekday |-> w, month |-> m]

as_number_fifth_as_fourth(o) ==
    CASE o = "First" -> 1 [] o = "Second" -> 2 [] o = "Third" -> 3
      [] o = "Fourth" -> 4 [] o = "Fifth" -> 4
as_number(o) ==
    CASE o = "First" -> 1 [] o = "Second" -> 2 [] o = "Third" -> 3
      [] o = "Fourth" -> 4 [] o = "Fifth" -> 5

\* relative_to, Keyword arm: the days each keyword adds (Today is the pivot itself).
keyword_days_off_by_one(k) ==
    CASE k = "Today" -> 0 [] k = "Tomorrow" -> 2 [] k = "AfterTomorrow" -> 3
keyword_days(k) ==
    CASE k = "Today" -> 0 [] k = "Tomorrow" -> 1 [] k = "AfterTomorrow" -> 2

\* relative_to, ThisWeekWeekday arm: let n = (7 - now + weekday) % 7.
this_week_n_mixed_numbering(p, w) ==
    (7 - number_from_sunday(weekday_of(p)) + number_from_monday(w)) % 7
this_week_n(p, w) ==
    (7 - number_from_sunday(weekday_of(p)) + number_from_sunday(w)) % 7

\* relative_to, NextWeekWeekday arm: let n = 7 + (7 - now + weekday) % 7.
next_week_n_without_week(p, w) ==
    (7 - number_from_sunday(weekday_of(p)) + number_from_sunday(w)) % 7
next_week_n_no_modulo(p, w) ==
    7 + (7 - number_from_sunday(weekday_of(p)) + number_from_sunday(w))
next_week_n(p, w) ==
    7 + ((7 - number_from_sunday(weekday_of(p)) + number_from_sunday(w)) % 7)

\* relative_to, OrdinalWeekdayOfMonth arm: the year handed to chrono is now.year().
ordinal_year_rolling(p, m) ==
    IF number_from_month(m) < p.month THEN p.year + 1 ELSE p.year
ordinal_year(p, m) == p.year

relative_to(e, p) ==
    CASE e.kind = "Keyword" ->
            IF e.keyword = "Today" THEN Some(p)
            ELSE unwrap(checked_add_days(p, keyword_days(e.keyword)))
      [] e.kind = "InNDays" -> unwrap(checked_add_days(p, e.n))
      [] e.kind = "ThisWeekWeekday" ->
            unwrap(checked_add_days(p, this_week_n(p, e.weekday)))
      [] e.kind = "NextWeekWeekday" ->
            unwrap(checked_add_days(p, next_week_n(p, e.weekday)))
      [] e.kind = "OrdinalWeekdayOfMonth" ->
            from_weekday_of_month_opt(ordinal_year(p, e.month),
                                      number_from_month(e.month),
                                      e.weekday, as_number(e.ordinal))

----------------------------------------------------------------------------
(* winnow: parsers over a &str.  A text is a string, a cursor a position   *)
(* in it from 1 (Len + 1 at the end of input); a parser maps text and      *)
(* cursor to POk(value, cursor after the consumed text) or Backtrack.      *)

POk(v, j) == [ok |-> TRUE, val |-> v, pos |-> j]
Backtrack == [ok |-> FALSE]

CharAt(s, i) == SubSeq(s, i, i)

\* The accented letters of the pt-BR tables are written, in every string of this
\* module, as one ASCII character each, which no table or text uses otherwise:
\*   ã @   á &   ç $   ó %   ê ^      and in upper case   Ã #   Á !   Ç ?   Ó =   Ê +
\* so "amanh@" is the text amanhã and "mar$o" the text março.  A parser compares
\* characters for equality only, so the renaming changes no result.
\* Letter case and accents of these letters:
LowerLetters == "abcdefghijklmnopqrstuvwxyz@&$%^"
UpperLetters == "ABCDEFGHIJKLMNOPQRSTUVWXYZ#!?=+"
AccentedLetters == "@&$%^#!?=+"
PlainLetters == "aacoeAACOE"

\* c replaced by the character of `to` at the place c has in `from`, if it has one.
MapChar(c, from, to) ==
    IF \E k \in 1..Len(from) : CharAt(from, k) = c
    THEN CharAt(to, CHOOSE k \in 1..Len(from) : CharAt(from, k) = c)
    ELSE c

RECURSIVE MapChars(_, _, _)
MapChars(s, from, to) ==
    IF Len(s) = 0 THEN ""
    ELSE MapChar(CharAt(s, 1), from, to) \o MapChars(SubSeq(s, 2, Len(s)), from, to)

ToUpper(s) == MapChars(s, LowerLetters, UpperLetters)
ToLower(s) == MapChars(s, UpperLetters, LowerLetters)
Capitalized(s) == ToUpper(CharAt(s, 1)) \o SubSeq(s, 2, Len(s))
Unaccented(s) == MapChars(s, AccentedLetters, PlainLetters)

\* A string literal used as a parser: matches exactly its own characters.
literal_folding(s, i, lit) ==
    IF i + Len(lit) - 1 <= Len(s)
       /\ Unaccented(ToLower(SubSeq(s, i, i + Len(lit) - 1))) = Unaccented(ToLower(lit))
    THEN POk(lit, i + Len(lit)) ELSE Backtrack
literal(s, i, lit) ==
    IF i + Len(lit) - 1 <= Len(s) /\ SubSeq(s, i, i + Len(lit) - 1) = lit
    THEN POk(lit, i + Len(lit)) ELSE Backtrack

\* alt over literals, each with its .value(): the first literal of the table, in
\* table order, that matches at the cursor decides; later ones are not tried.
alt_literals_shortest_hit(s, i, table) ==
    LET hits == {k \in 1..Len(table) : literal(s, i, table[k][1]).ok}
    IN  IF hits = {} THEN Backtrack
        ELSE LET k == CHOOSE x \in hits :
                          \A y \in hits : Len(table[x][1]) < Len(table[y][1])
                                              \/ (Len(table[x][1]) = Len(table[y][1]) /\ x <= y)
             IN  POk(table[k][2], i + Len(table[k][1]))
alt_literals_last_hit(s, i, table) ==
    LET hits == {k \in 1..Len(table) : literal(s, i, table[k][1]).ok}
    IN  IF hits = {} THEN Backtrack
        ELSE LET k == CHOOSE x \in hits : \A y \in hits : x >= y
             IN  POk(table[k][2], i + Len(table[k][1]))
alt_literals(s, i, table) ==
    LET hits == {k \in 1..Len(table) : literal(s, i, table[k][1]).ok}
    IN  IF hits = {} THEN Backtrack
        ELSE LET k == CHOOSE x \in hits : \A y \in hits : x <= y
             IN  POk(table[k][2], i + Len(table[k][1]))

\* The end of the longest run, from the cursor, of characters of a set.
RunEnd(s, i, chars) ==
    CHOOSE j \in i..(Len(s) + 1) :
        /\ \A k \in i..(j - 1) : CharAt(s, k) \in chars
        /\ (j = Len(s) + 1 \/ CharAt(s, j) \notin chars)

\* winnow::ascii::space1: one or more spaces and tabs.
space0(s, i) == POk(SubSeq(s, i, RunEnd(s, i, {" ", "\t"}) - 1), RunEnd(s, i, {" ", "\t"}))
space1(s, i) ==
    LET j == RunEnd(s, i, {" ", "\t"})
    IN  IF j > i THEN POk(SubSeq(s, i, j - 1), j) ELSE Backtrack

Digits == {"0", "1", "2", "3", "4", "5", "6", "7", "8", "9"}

\* winnow::ascii::digit1: one or more ASCII digits.
digit1(s, i) ==
    LET j == RunEnd(s, i, Digits)
    IN  IF j > i THEN POk(SubSeq(s, i, j - 1), j) ELSE Backtrack

DigitValue(c) ==
    CASE c = "0" -> 0 [] c = "1" -> 1 [] c = "2" -> 2 [] c = "3" -> 3 [] c = "4" -> 4
      [] c = "5" -> 5 [] c = "6" -> 6 [] c = "7" -> 7 [] c = "8" -> 8 [] c = "9" -> 9

RECURSIVE DecimalValue(_)
DecimalValue(d) ==
    IF Len(d) = 0 THEN 0
    ELSE 10 * DecimalValue(SubSeq(d, 1, Len(d) - 1)) + DigitValue(CharAt(d, Len(d)))

U64_MAX_DIGITS == "18446744073709551615"

\* The digits without their leading zeros.
StripZeros(d) == SubSeq(d, RunEnd(d, 1, {"0"}), Len(d))

\* For digit strings of one length: a is the greater number.
DigitsGreater(a, b) ==
    \E k \in 1..Len(a) :
        /\ DigitValue(CharAt(a, k)) > DigitValue(CharAt(b, k))
        /\ \A j \in 1..(k - 1) : CharAt(a, j) = CharAt(b, j)

\* <u64 as FromStr>::from_str on a run of digits: leading zeros are accepted, a
\* value above u64::MAX is an error.  (Values are TLC integers: the texts tried
\* keep the accepted runs below ten digits.)
from_str_u64(d) ==
    LET z == StripZeros(d)
    IN  IF Len(z) > Len(U64_MAX_DIGITS)
           \/ (Len(z) = Len(U64_MAX_DIGITS) /\ DigitsGreater(z, U64_MAX_DIGITS))
        THEN Backtrack
        ELSE POk(DecimalValue(z), 0)

\* digit1.try_map(FromStr::from_str): a failed conversion restores the cursor.
digit_number(s, i) ==
    LET d == digit1(s, i)
    IN  IF ~d.ok THEN Backtrack
        ELSE LET v == from_str_u64(d.val)
             IN  IF v.ok THEN POk(v.val, d.pos) ELSE Backtrack

----------------------------------------------------------------------------
(* Locale, and the literal tables of locales/en.rs and locales/pt_br.rs,   *)
(* each in the order its alt lists them.                                   *)

Locales == {"BrazilianPortuguese", "English"}

en_keyword ==
    << <<"today", "Today">>, <<"tomorrow", "Tomorrow">>,
       <<"day after tomorrow", "AfterTomorrow">> >>

en_in == << <<"in", "">>, <<"after", "">> >>
en_day == "day"
en_of == "of"

en_this == << <<"this", "">>, <<"the current", "">> >>

en_next == << <<"next", "">>, <<"the next", "">>, <<"the following", "">> >>

en_ordinal ==
    << <<"first", "First">>, <<"second", "Second">>, <<"third", "Third">>,
       <<"fourth", "Fourth">>, <<"fifth", "Fifth">> >>

en_number_ascending ==
    << <<"one", 1>>, <<"two", 2>>, <<"three", 3>>, <<"four", 4>>, <<"five", 5>>,
       <<"six", 6>>, <<"seven", 7>>, <<"eight", 8>>, <<"nine", 9>>, <<"ten", 10>>,
       <<"eleven", 11>>, <<"twelve", 12>>, <<"thirteen", 13>>, <<"fourteen", 14>>,
       <<"fifteen", 15>>, <<"sixteen", 16>>, <<"seventeen", 17>>, <<"eighteen", 18>>,
       <<"nineteen", 19>>, <<"twenty", 20>> >>
en_number ==
    << <<"twenty", 20>>, <<"nineteen", 19>>, <<"eighteen", 18>>, <<"seventeen", 17>>,
       <<"sixteen", 16>>, <<"fifteen", 15>>, <<"fourteen", 14>>, <<"thirteen", 13>>,
       <<"twelve", 12>>, <<"eleven", 11>>, <<"ten", 10>>, <<"nine", 9>>,
       <<"eight", 8>>, <<"seven", 7>>, <<"six", 6>>, <<"five", 5>>, <<"four", 4>>,
       <<"three", 3>>, <<"two", 2>>, <<"one", 1>> >>

en_weekday ==
    << <<"monday", "Mon">>, <<"mon", "Mon">>, <<"tuesday", "Tue">>, <<"tue", "Tue">>,
       <<"wednesday", "Wed">>, <<"wed", "Wed">>, <<"thursday", "Thu">>, <<"thu", "Thu">>,
       <<"friday", "Fri">>, <<"fri", "Fri">>, <<"saturday", "Sat">>, <<"sat", "Sat">>,
       <<"sunday", "Sun">>, <<"sun", "Sun">> >>

en_month ==
    << <<"january", "January">>, <<"jan", "January">>,
       <<"february", "February">>, <<"feb", "February">>,
       <<"march", "March">>, <<"mar", "March">>,
       <<"april", "April">>, <<"apr", "April">>,
       <<"may", "May">>,
       <<"june", "June">>, <<"jun", "June">>,
       <<"july", "July">>, <<"jul", "July">>,
       <<"august", "August">>, <<"aug", "August">>,
       <<"september", "September">>, <<"sep", "September">>,
       <<"october", "October">>, <<"oct", "October">>,
       <<"november", "November">>, <<"nov", "November">>,
       <<"december", "December">>, <<"dec", "December">> >>

pt_br_keyword_mistranslated ==
    << <<"hoje", "Today">>, <<"amanh@", "AfterTomorrow">>,
       <<"depois de amanh@", "Tomorrow">> >>
pt_br_keyword ==
    << <<"hoje", "Today">>, <<"amanh@", "Tomorrow">>,
       <<"depois de amanh@", "AfterTomorrow">> >>

pt_br_in == << <<"daqui", "">>, <<"em", "">> >>
pt_br_day == "dia"
pt_br_of == "de"

pt_br_this == << <<"esta", "">>, <<"essa", "">>, <<"esse", "">>, <<"este", "">> >>

pt_br_next ==
    << <<"pr%xima", "">>, <<"proxima", "">>, <<"pr%ximo", "">>, <<"proximo", "">>,
       <<"pr%x.", "">>, <<"prox.", "">>, <<"pr%x", "">>, <<"prox", "">> >>

pt_br_ordinal ==
    << <<"primeira", "First">>, <<"primeiro", "First">>,
       <<"segunda", "Second">>, <<"segundo", "Second">>,
       <<"terceira", "Third">>, <<"terceiro", "Third">>,
       <<"quarta", "Fourth">>, <<"quarto", "Fourth">>,
       <<"quinta", "Fifth">>, <<"quinto", "Fifth">> >>

pt_br_number ==
    << <<"dezessete", 17>>, <<"dezesseis", 16>>, <<"dezenove", 19>>,
       <<"quatorze", 14>>, <<"catorze", 14>>, <<"dezoito", 18>>, <<"quinze", 15>>,
       <<"vinte", 20>>, <<"treze", 13>>, <<"quatro", 4>>, <<"tr^s", 3>>,
       <<"onze", 11>>, <<"doze", 12>>, <<"cinco", 5>>, <<"sete", 7>>, <<"seis", 6>>,
       <<"oito", 8>>, <<"nove", 9>>, <<"dois", 2>>, <<"dez", 10>>, <<"um", 1>> >>

pt_br_weekday ==
    << <<"segunda-feira", "Mon">>, <<"segunda feira", "Mon">>, <<"segunda", "Mon">>,
       <<"seg.", "Mon">>, <<"seg", "Mon">>,
       <<"ter$a-feira", "Tue">>, <<"terca-feira", "Tue">>, <<"ter$a feira", "Tue">>,
       <<"terca feira", "Tue">>, <<"ter$a", "Tue">>, <<"terca", "Tue">>,
       <<"ter.", "Tue">>, <<"ter", "Tue">>,
       <<"quarta-feira", "Wed">>, <<"quarta feira", "Wed">>, <<"quarta", "Wed">>,
       <<"qua.", "Wed">>, <<"qua", "Wed">>,
       <<"quinta-feira", "Thu">>, <<"quinta feira", "Thu">>, <<"quinta", "Thu">>,
       <<"qui.", "Thu">>, <<"qui", "Thu">>,
       <<"sexta-feira", "Fri">>, <<"sexta feira", "Fri">>, <<"sexta", "Fri">>,
       <<"sex.", "Fri">>, <<"sex", "Fri">>,
       <<"s&bado", "Sat">>, <<"sabado", "Sat">>, <<"s&b.", "Sat">>, <<"sab.", "Sat">>,
       <<"s&b", "Sat">>, <<"sab", "Sat">>,
       <<"domingo", "Sun">>, <<"dom.", "Sun">>, <<"dom", "Sun">> >>

pt_br_month ==
    << <<"janeiro", "January">>, <<"jan.", "January">>, <<"jan", "January">>,
       <<"fevereiro", "February">>, <<"fev.", "February">>, <<"fev", "February">>,
       <<"mar$o", "March">>, <<"marco", "March">>, <<"mar.", "March">>, <<"mar", "March">>,
       <<"abril", "April">>, <<"abr.", "April">>, <<"abr", "April">>,
       <<"maio", "May">>, <<"mai.", "May">>, <<"maio", "May">>,
       <<"junho", "June">>, <<"jun.", "June">>, <<"jun", "June">>,
       <<"julho", "July">>, <<"jul.", "July">>, <<"jul", "July">>,
       <<"agosto", "August">>, <<"ago.", "August">>, <<"ago", "August">>,
       <<"setembro", "September">>, <<"set.", "September">>, <<"set", "September">>,
       <<"outubro", "October">>, <<"out.", "October">>, <<"out", "October">>,
       <<"novembro", "November">>, <<"nov.", "November">>, <<"nov", "November">>,
       <<"dezembro", "December">>, <<"dez.", "December">>, <<"dez", "December">> >>

keyword_table(l) == IF l = "English" THEN en_keyword ELSE pt_br_keyword
in_table(l) == IF l = "English" THEN en_in ELSE pt_br_in
day_literal(l) == IF l = "English" THEN en_day ELSE pt_br_day
of_literal(l) == IF l = "English" THEN en_of ELSE pt_br_of
this_table(l) == IF l = "English" THEN en_this ELSE pt_br_this
next_table(l) == IF l = "English" THEN en_next ELSE pt_br_next
ordinal_table(l) == IF l = "English" THEN en_ordinal ELSE pt_br_ordinal
number_table(l) == IF l = "English" THEN en_number ELSE pt_br_number
weekday_table(l) == IF l = "English" THEN en_weekday ELSE pt_br_weekday
month_table(l) == IF l = "English" THEN en_month ELSE pt_br_month

----------------------------------------------------------------------------
(* The grammar of a locale: the functions of locales/en.rs and             *)
(* locales/pt_br.rs, which differ in their literals only.                  *)

keyword(l, s, i) == alt_literals(s, i, keyword_table(l))
this(l, s, i) == alt_literals(s, i, this_table(l))
next(l, s, i) == alt_literals(s, i, next_table(l))
ordinal(l, s, i) == alt_literals(s, i, ordinal_table(l))
weekday(l, s, i) == alt_literals(s, i, weekday_table(l))
month(l, s, i) == alt_literals(s, i, month_table(l))

\* alt((digit1.try_map(FromStr::from_str), "twenty".value(20), ...))
first_of_two(r1, r2) == IF r1.ok THEN r1 ELSE r2
number(l, s, i) == first_of_two(digit_number(s, i), alt_literals(s, i, number_table(l)))

\* opt(p): the result of p, or no value and the cursor unmoved when p fails.
opt(r, i) == IF r.ok THEN r ELSE POk("", i)

\* A tuple of parsers: each runs where the one before it ended, the values are
\* collected in order, and the first failure fails the whole tuple.
prepend(v, rest) == IF rest.ok THEN POk(<<v>> \o rest.val, rest.pos) ELSE Backtrack

RECURSIVE tuple(_, _, _, _)
RECURSIVE element(_, _, _, _)
RECURSIVE tuple_rest(_, _, _, _)

tuple_rest(l, s, elements, r) ==
    IF r.ok THEN prepend(r.val, tuple(l, s, r.pos, Tail(elements))) ELSE Backtrack

tuple(l, s, i, elements) ==
    IF elements = << >> THEN POk(<< >>, i)
    ELSE tuple_rest(l, s, elements, element(Head(elements), l, s, i))

\* The parsers the tuples of the grammar are made of.
element(name, l, s, i) ==
    CASE name = "space1" -> space1(s, i)
      [] name = "in" -> alt_literals(s, i, in_table(l))
      [] name = "number" -> number(l, s, i)
      [] name = "day" -> literal(s, i, day_literal(l))
      [] name = "opt(s)" -> opt(literal(s, i, "s"), i)
      [] name = "this" -> this(l, s, i)
      [] name = "opt((this, space1))" -> opt(tuple(l, s, i, <<"this", "space1">>), i)
      [] name = "next" -> next(l, s, i)
      [] name = "ordinal" -> ordinal(l, s, i)
      [] name = "weekday" -> weekday(l, s, i)
      [] name = "of" -> literal(s, i, of_literal(l))
      [] name = "month" -> month(l, s, i)

\* let (.., v, ..) = tuple.parse_next(input)?; Ok(v)
value_at(r, k) == IF r.ok THEN POk(r.val[k], r.pos) ELSE Backtrack
values_at(r, k1, k2, k3) ==
    IF r.ok THEN POk(<<r.val[k1], r.val[k2], r.val[k3]>>, r.pos) ELSE Backtrack

\* ((alt(("in", "after")), space1), number, (space1, "day", opt('s')))
in_n_days(l, s, i) ==
    value_at(tuple(l, s, i, <<"in", "space1", "number", "space1", "day", "opt(s)">>), 3)

\* (opt((this, space1)), weekday)
this_week_weekday(l, s, i) ==
    value_at(tuple(l, s, i, <<"opt((this, space1))", "weekday">>), 2)

\* (next, space1, weekday)
next_week_weekday(l, s, i) ==
    value_at(tuple(l, s, i, <<"next", "space1", "weekday">>), 3)

\* (ordinal, space1, weekday, space1, "of", space1, month)
ordinal_weekday_of_month(l, s, i) ==
    values_at(tuple(l, s, i, <<"ordinal", "space1", "weekday", "space1", "of",
                               "space1", "month">>), 1, 3, 7)

\* .map(HumanDateExpr::Keyword) and the like.
map_Keyword(r) == IF r.ok THEN POk(Keyword(r.val), r.pos) ELSE Backtrack
map_InNDays(r) == IF r.ok THEN POk(InNDays(r.val), r.pos) ELSE Backtrack
map_ThisWeekWeekday(r) == IF r.ok THEN POk(ThisWeekWeekday(r.val), r.pos) ELSE Backtrack
map_NextWeekWeekday(r) == IF r.ok THEN POk(NextWeekWeekday(r.val), r.pos) ELSE Backtrack
map_OrdinalWeekdayOfMonth(r) ==
    IF r.ok THEN POk(OrdinalWeekdayOfMonth(r.val[1], r.val[2], r.val[3]), r.pos)
    ELSE Backtrack

\* The five phrase shapes, in the order of the alt in parse_next.
Shapes == <<"keyword", "in_n_days", "ordinal_weekday_of_month",
            "this_week_weekday", "next_week_weekday">>

shape(name, l, s, i) ==
    CASE name = "keyword" -> map_Keyword(keyword(l, s, i))
      [] name = "in_n_days" -> map_InNDays(in_n_days(l, s, i))
      [] name = "ordinal_weekday_of_month" ->
            map_OrdinalWeekdayOfMonth(ordinal_weekday_of_month(l, s, i))
      [] name = "this_week_weekday" -> map_ThisWeekWeekday(this_week_weekday(l, s, i))
      [] name = "next_week_weekday" -> map_NextWeekWeekday(next_week_weekday(l, s, i))

\* alt over parsers: the result of the first, in order, that succeeds.
alt_last_success(results) ==
    IF \A k \in DOMAIN results : ~results[k].ok THEN Backtrack
    ELSE results[CHOOSE k \in DOMAIN results :
                     results[k].ok /\ \A j \in (k + 1)..Len(results) : ~results[j].ok]
alt(results) ==
    IF \A k \in DOMAIN results : ~results[k].ok THEN Backtrack
    ELSE results[CHOOSE k \in DOMAIN results :
                     results[k].ok /\ \A j \in 1..(k - 1) : ~results[j].ok]

\* Locale::parser().parse_next: alt((keyword, in_n_days, ordinal_weekday_of_month,
\* this_week_weekday, next_week_weekday)), each mapped to its HumanDateExpr.
parse_next(l, s, i) == alt([k \in 1..Len(Shapes) |-> shape(Shapes[k], l, s, i)])

\* winnow::token::any: one character, an error at the end of input.
any_rest_of_word(s, i) ==
    IF i <= Len(s)
    THEN POk(CharAt(s, i),
             CHOOSE j \in (i + 1)..(Len(s) + 1) :
                 /\ j = Len(s) + 1 \/ CharAt(s, j) \in {" ", "\t"}
                 /\ \A k \in (i + 1)..(j - 1) : CharAt(s, k) \notin {" ", "\t"})
    ELSE Backtrack
any_two(s, i) ==
    IF i < Len(s) THEN POk(CharAt(s, i), i + 2)
    ELSE IF i = Len(s) THEN POk(CharAt(s, i), i + 1) ELSE Backtrack
any(s, i) == IF i <= Len(s) THEN POk(CharAt(s, i), i + 1) ELSE Backtrack

Ok(e) == [tag |-> "Ok", expr |-> e]
Err == [tag |-> "Err"]

\* Parser::parse: the parser, then the end of input; anything left over is an error.
parse_to_eof_ignoring_rest(s, r) == IF r.ok THEN Ok(r.val) ELSE Err
parse_to_eof(s, r) == IF r.ok /\ r.pos = Len(s) + 1 THEN Ok(r.val) ELSE Err

\* parse(input, locale): locale.parser().parse(input)
parse(l, s) == parse_to_eof(s, parse_next(l, s, 1))

\* parse_relative of the crate's earlier lib.rs:
\* match parser.parse(input) { Ok(expr) => expr.relative_to(now), Err(_) => None }
parse_relative_result(r, p) == IF r.tag = "Ok" THEN relative_to(r.expr, p) ELSE None
parse_relative(l, s, p) == parse_relative_result(parse(l, s), p)

\* winnow repeat(0.., p): what the loop returns when p ends with a recoverable error
\* (the input goes back to where p started, the items so far are the result) ...
repeat_error_on_backtrack(acc) == [tag |-> "Err", items |-> << >>]
repeat_returns_on_backtrack(acc) == [tag |-> "Ok", items |-> acc]
\* ... and when p succeeded without consuming input (the guard against endless loops).
repeat_fails_without_progress(acc) == [tag |-> "Err", items |-> << >>]

\* extract_all: match repeat(..).parse_next(input) { Ok(result) => result, Err(_) => vec![] }
extract_all_result(r) == IF r.tag = "Ok" THEN r.items ELSE << >>

----------------------------------------------------------------------------
(* Inputs of the runs                                                      *)

\* Number of consecutive pivot years, from 2023 on.
NumYears == 4
\* Number of pivot dates taken at the end of the representable range.
NumLastDays == 14
\* Largest number of pieces a text is put together from.
MaxPieces == 3

PivotYears == 2023..(2022 + NumYears)
PivotDays == {1, 7, 13, 19, 25, 28, 29, 30, 31}

Pivots ==
    {dt \in [year : PivotYears, month : 1..12, day : PivotDays] :
         dt.day <= DaysInMonth(dt.year, dt.month)}
      \cup {Date(MAX_YEAR, 12, 32 - k) : k \in 1..NumLastDays}

DayCounts == {0, 1, 2, 3, 7, 28, 31, 59, 365, 366, I32_MAX}

Exprs ==
    {Keyword(k) : k \in HumanDateKeyword}
      \cup {InNDays(n) : n \in DayCounts}
      \cup {ThisWeekWeekday(w) : w \in Weekdays}
      \cup {NextWeekWeekday(w) : w \in Weekdays}
      \cup {OrdinalWeekdayOfMonth(o, w, m) : o \in Ordinals, w \in Weekdays, m \in Months}

\* Phrases, fillers and fragments the texts are put together from.
Pieces(l) ==
    IF l = "English"
    THEN {"today", "tomorrow", "day after tomorrow", "in 2 days", "next friday",
          "third sunday of september", "monday", " ", "x", "filler", "months"}
    ELSE {"hoje", "amanh@", "depois de amanh@", "em 2 dias", "pr%xima sexta",
          "segunda quinta de mar$o", "quinta-feira", " ", "x", "meio", "sufixo"}

RECURSIVE TextsOf(_, _)
\* The texts made of at most k pieces of P, the empty text among them.
TextsOf(P, k) ==
    IF k = 0 THEN {""}
    ELSE LET shorter == TextsOf(P, k - 1)
         IN  shorter \cup {t \o p : t \in shorter, p \in P}

Texts(l) == TextsOf(Pieces(l), MaxPieces)

Vec(xs) == [tag |-> "Vec", items |-> xs]

\* Longest run of spaces and tabs put between two tokens of a phrase.
MaxGap == 2

\* Runs of spaces and tabs, the empty run among them.
GapsOrNone == TextsOf({" ", "\t"}, MaxGap)
Gaps == GapsOrNone \ {""}

Literals(table) == {table[k][1] : k \in 1..Len(table)}

DigitStrings ==
    {"0", "1", "01", "2", "007", "20", "365", "18446744073709551616"}

UnitWords(l) == {day_literal(l), day_literal(l) \o "s"}

\* Every keyword literal.
KeywordTexts(l) == Literals(keyword_table(l))

\* connector, number, unit: every connector with every number literal and digit string.
InNDaysTexts(l) ==
    {c \o " " \o n \o " " \o u :
        c \in Literals(in_table(l)),
        n \in Literals(number_table(l)) \cup DigitStrings,
        u \in UnitWords(l)}

\* Every weekday literal, bare and after every this and next literal.
WeekdayTexts(l) ==
    Literals(weekday_table(l))
      \cup {t \o " " \o w : t \in Literals(this_table(l)) \cup Literals(next_table(l)),
                             w \in Literals(weekday_table(l))}

\* ordinal, weekday, of, month: every ordinal literal with every weekday literal and
\* one month, and one ordinal and weekday with every month literal.
OrdinalTexts(l) ==
    {o \o " " \o w \o " " \o of_literal(l) \o " " \o month_table(l)[4][1] :
        o \in Literals(ordinal_table(l)), w \in Literals(weekday_table(l))}
      \cup {ordinal_table(l)[1][1] \o " " \o weekday_table(l)[1][1] \o " "
               \o of_literal(l) \o " " \o m : m \in Literals(month_table(l))}

\* The name a table lists first for a month, and the forms of a month name: the name,
\* its first three letters followed by a period, and its first three letters.
FullName(l, m) ==
    LET t == month_table(l)
        k == CHOOSE k \in 1..Len(t) : t[k][2] = m /\ \A j \in 1..(k - 1) : t[j][2] # m
    IN  t[k][1]
MonthForms(l, m) ==
    {FullName(l, m), SubSeq(FullName(l, m), 1, 3) \o ".", SubSeq(FullName(l, m), 1, 3)}

\* ordinal, weekday, of, month with the month in each of its forms.
MonthFormText(l, f) ==
    ordinal_table(l)[1][1] \o " " \o weekday_table(l)[1][1] \o " " \o of_literal(l)
        \o " " \o f
MonthFormTexts(l) ==
    UNION {{MonthFormText(l, f) : f \in MonthForms(l, m)} : m \in Months}

\* Phrases, token by token, one for each shape made of more than one token.
TokenPhrases(l) ==
    IF l = "English"
    THEN {<<"in", "2", "days">>, <<"this", "friday">>, <<"next", "friday">>,
          <<"third", "sunday", "of", "september">>}
    ELSE {<<"em", "2", "dias">>, <<"esta", "sexta">>, <<"pr%xima", "sexta">>,
          <<"segunda", "quinta", "de", "mar$o">>}

RECURSIVE Join(_, _, _)
\* The tokens t with g1 after the first, g2 after the second, g1 after the third, ...
Join(t, g1, g2) ==
    IF Len(t) = 1 THEN t[1] ELSE t[1] \o g1 \o Join(Tail(t), g2, g1)

\* The token phrases with every choice of runs (or nothing) between their tokens, and
\* with a run before or after them.
SpacingTexts(l) ==
    {Join(t, g1, g2) : t \in TokenPhrases(l), g1 \in GapsOrNone, g2 \in GapsOrNone}
      \cup {g \o Join(t, " ", " ") : t \in TokenPhrases(l), g \in Gaps}
      \cup {Join(t, " ", " ") \o g : t \in TokenPhrases(l), g \in Gaps}

\* Phrases as sequences of <<part of the grammar, token>>.
KindPhrases(l) ==
    IF l = "English"
    THEN {<< <<"keyword", "today">> >>, << <<"keyword", "tomorrow">> >>,
          << <<"in", "in">>, <<"number", "two">>, <<"day", "days">> >>,
          << <<"next", "next">>, <<"weekday", "friday">> >>,
          << <<"weekday", "monday">> >>,
          << <<"ordinal", "first">>, <<"weekday", "mon">>, <<"of", "of">>,
             <<"month", "may">> >>}
    ELSE {<< <<"keyword", "hoje">> >>, << <<"keyword", "amanh@">> >>,
          << <<"keyword", "depois de amanh@">> >>,
          << <<"in", "em">>, <<"number", "tr^s">>, <<"day", "dias">> >>,
          << <<"next", "pr%xima">>, <<"weekday", "ter$a">> >>,
          << <<"next", "pr%x.">>, <<"weekday", "s&b.">> >>,
          << <<"weekday", "s&bado">> >>, << <<"weekday", "ter$a-feira">> >>,
          << <<"ordinal", "primeira">>, <<"weekday", "s&bado">>, <<"of", "de">>,
             <<"month", "mar$o">> >>}

\* The respellings tried: first letter in upper case, all in upper case, accents dropped.
SpellingKinds == {"capitalized", "upper", "unaccented"}

Respell(v, w) ==
    CASE v = "capitalized" -> Capitalized(w)
      [] v = "upper" -> ToUpper(w)
      [] v = "unaccented" -> Unaccented(w)

\* The tokens of phrase ph with token k respelled (every token when k = 0).
RespelledTokens(ph, k, v) ==
    [j \in 1..Len(ph) |-> IF k = 0 \/ j = k THEN Respell(v, ph[j][2]) ELSE ph[j][2]]

SpellingTexts(l) ==
    {Join(RespelledTokens(ph, k, v), " ", " ") :
        ph \in KindPhrases(l), k \in 0..4, v \in SpellingKinds}

PhraseTexts(l) ==
    KeywordTexts(l) \cup InNDaysTexts(l) \cup WeekdayTexts(l) \cup OrdinalTexts(l)
      \cup SpacingTexts(l) \cup SpellingTexts(l) \cup MonthFormTexts(l)

\* Pivots of parse_relative: in 2024 February has four Mondays and five Thursdays.
PhrasePivots == {Date(2024, 8, 13), Date(2024, 2, 29), Date(2023, 12, 31)}

----------------------------------------------------------------------------
(* The calls                                                               *)

InitResolve ==
    /\ pc = "call"
    /\ op = "relative_to"
    /\ now \in Pivots
    /\ expr \in Exprs
    /\ resolved = Pending
    /\ locale = "English" /\ input = "" /\ cursor = 1 /\ start = 1
    /\ items = << >> /\ output = Pending

InitParse ==
    /\ pc = "call"
    /\ op \in {"parse", "extract_all"}
    /\ locale \in Locales
    /\ input \in Texts(locale)
    /\ cursor = 1 /\ start = 1
    /\ items = << >> /\ output = Pending
    /\ now = Date(2024, 8, 13) /\ expr = Keyword("Today") /\ resolved = Pending

\* The calls on phrases built from the tables; parse_relative also takes a pivot.
InitPhrase ==
    /\ pc = "call"
    /\ locale \in Locales
    /\ input \in PhraseTexts(locale)
    /\ \/ op \in {"parse", "extract_all"} /\ now = Date(2024, 8, 13)
       \/ op = "parse_relative" /\ now \in PhrasePivots
    /\ cursor = 1 /\ start = 1
    /\ items = << >> /\ output = Pending
    /\ expr = Keyword("Today") /\ resolved = Pending

Init == InitResolve \/ InitParse \/ InitPhrase

\* expr.relative_to(&now)
RelativeTo ==
    /\ pc = "call" /\ op = "relative_to"
    /\ resolved' = relative_to(expr, now)
    /\ pc' = "done"
    /\ UNCHANGED <<op, now, expr, locale, input, cursor, start, items, output>>

\* parse(&mut input, &locale)
Parse ==
    /\ pc = "call" /\ op = "parse"
    /\ output' = parse(locale, input)
    /\ pc' = "done"
    /\ UNCHANGED <<op, now, expr, resolved, locale, input, cursor, start, items>>

\* parse_relative(&mut input, &locale, &now)
ParseRelative ==
    /\ pc = "call" /\ op = "parse_relative"
    /\ output' = parse_relative(locale, input, now)
    /\ pc' = "done"
    /\ UNCHANGED <<op, now, expr, resolved, locale, input, cursor, start, items>>

Scanning == op = "extract_all" /\ pc \in {"call", "scan"}

\* A turn of repeat_till in which the locale's parser matches (r) at the cursor:
\* repeat_till returns the expression, and repeat, having seen input consumed since
\* its turn began, keeps it and goes round again.
Match_newest_first(r) ==
    /\ r.ok
    /\ IF r.pos = start
       THEN /\ output' = Vec(extract_all_result(repeat_fails_without_progress(items)))
            /\ pc' = "done"
            /\ UNCHANGED <<cursor, start, items>>
       ELSE /\ items' = <<r.val>> \o items
            /\ cursor' = r.pos
            /\ start' = r.pos
            /\ pc' = "scan"
            /\ UNCHANGED output
Match(r) ==
    /\ r.ok
    /\ IF r.pos = start
       THEN /\ output' = Vec(extract_all_result(repeat_fails_without_progress(items)))
            /\ pc' = "done"
            /\ UNCHANGED <<cursor, start, items>>
       ELSE /\ items' = Append(items, r.val)
            /\ cursor' = r.pos
            /\ start' = r.pos
            /\ pc' = "scan"
            /\ UNCHANGED output

\* A turn of repeat_till in which the parser fails (r) at the cursor and any
\* consumes one character (c).
Skip_staying(r, c) ==
    /\ ~r.ok /\ c.ok
    /\ cursor' = cursor
    /\ pc' = "scan"
    /\ UNCHANGED <<start, items, output>>
Skip(r, c) ==
    /\ ~r.ok /\ c.ok
    /\ cursor' = c.pos
    /\ pc' = "scan"
    /\ UNCHANGED <<start, items, output>>

\* The last turn: the parser fails (r) at the end of input and so does any (c);
\* repeat_till fails, repeat puts the input back where this turn of it began and
\* returns, and extract_all returns what its match on that result gives.
End(r, c) ==
    /\ ~r.ok /\ ~c.ok
    /\ output' = Vec(extract_all_result(repeat_returns_on_backtrack(items)))
    /\ cursor' = start
    /\ pc' = "done"
    /\ UNCHANGED <<start, items>>

\* extract_all(&mut input, &locale), one turn of its loops at a time
ExtractMatch ==
    /\ Scanning
    /\ Match(parse_next(locale, input, cursor))
    /\ UNCHANGED <<op, now, expr, resolved, locale, input>>

ExtractSkip ==
    /\ Scanning
    /\ Skip(parse_next(locale, input, cursor), any(input, cursor))
    /\ UNCHANGED <<op, now, expr, resolved, locale, input>>

ExtractEnd ==
    /\ Scanning
    /\ End(parse_next(locale, input, cursor), any(input, cursor))
    /\ UNCHANGED <<op, now, expr, resolved, locale, input>>

NextResolve == RelativeTo
NextParse == Parse \/ ExtractMatch \/ ExtractSkip \/ ExtractEnd
NextPhrase == NextParse \/ ParseRelative
Next == NextResolve \/ NextPhrase

SpecResolve == InitResolve /\ [][NextResolve]_vars
SpecParse == InitParse /\ [][NextParse]_vars
SpecPhrase == InitPhrase /\ [][NextPhrase]_vars
Spec == Init /\ [][Next]_vars

----------------------------------------------------------------------------
(* Calendar notions the properties are stated with, defined day by day     *)
(* and independently of the day-number arithmetic above.                   *)

\* The first day of the month following dt's month.
FirstOfNextMonth(dt) ==
    IF dt.month < 12 THEN Date(dt.year, dt.month + 1, 1) ELSE Date(dt.year + 1, 1, 1)

RECURSIVE PlusDays(_, _)
\* dt + k days, walking the calendar: within the month while the month has days
\* left, else on from the first day of the next month.
PlusDays(dt, k) ==
    LET left == DaysInMonth(dt.year, dt.month) - dt.day
    IN  IF k <= left THEN Date(dt.year, dt.month, dt.day + k)
        ELSE PlusDays(FirstOfNextMonth(dt), k - left - 1)

\* dt + k days is a date of the representable range (at most NaiveDate::MAX).
Representable(dt, k) == k <= num_days_from_ce(MAX_DATE) - num_days_from_ce(dt)

DateLE(a, b) ==
    \/ a.year < b.year
    \/ a.year = b.year /\ a.month < b.month
    \/ a.year = b.year /\ a.month = b.month /\ a.day <= b.day

\* Index of the Sunday-to-Saturday week a date lies in (day 0 of the CE count is a Sunday).
WeekIndex(dt) == num_days_from_ce(dt) \div 7

\* Days of month m of year y that fall on weekday w.
Occurrences(y, m, w) == {d \in 1..DaysInMonth(y, m) : weekday_of(Date(y, m, d)) = w}

\* The n-th smallest of them (n at most their number).
NthOccurrence(y, m, w, n) ==
    CHOOSE d \in Occurrences(y, m, w) :
        Cardinality({x \in Occurrences(y, m, w) : x < d}) = n - 1

OrdinalNumber(o) ==
    CASE o = "First" -> 1 [] o = "Second" -> 2 [] o = "Third" -> 3
      [] o = "Fourth" -> 4 [] o = "Fifth" -> 5

Done(kind) == pc = "done" /\ expr.kind = kind

----------------------------------------------------------------------------
(* Properties of relative_to                                               *)

\* C1: for a pivot p with p+6 days representable, ThisWeekWeekday(w) resolves to the
\* earliest date on or after p that falls on weekday w: a date among p .. p+6 days,
\* on weekday w, and p itself when w is p's weekday.
C1_ThisWeekIsEarliestOnOrAfterPivot ==
    (Done("ThisWeekWeekday") /\ Representable(now, 6)) =>
        /\ resolved.tag = "Some"
        /\ DateLE(now, resolved.date) /\ DateLE(resolved.date, PlusDays(now, 6))
        /\ \E k \in 0..6 :
              /\ resolved.date = PlusDays(now, k)
              /\ weekday_of(PlusDays(now, k)) = expr.weekday
              /\ \A j \in 0..(k - 1) : weekday_of(PlusDays(now, j)) # expr.weekday
        /\ (expr.weekday = weekday_of(now) => resolved.date = now)

\* C1 witness: the pivot of the crate's tests, Tuesday 2024-08-13, and Monday: six days on.
C1_Witness ==
    /\ Done("ThisWeekWeekday")
    /\ now = Date(2024, 8, 13) /\ weekday_of(now) = "Tue"
    /\ expr.weekday = "Mon"
    /\ resolved = Some(Date(2024, 8, 19))

C3_ResolvesInsidePivotWeek ==
    (pc = "done" /\ resolved.tag = "Some") =>
        /\ expr.kind = "ThisWeekWeekday" => WeekIndex(resolved.date) = WeekIndex(now)
        /\ expr.kind = "NextWeekWeekday" => WeekIndex(resolved.date) = WeekIndex(now) + 1

\* C3 amended: ThisWeekWeekday(w) resolves inside the Sunday-to-Saturday week of the
\* pivot exactly when w does not come before the pivot's weekday counting from Sunday,
\* and inside the following week when it does; NextWeekWeekday(w) resolves inside the
\* week right after the one ThisWeekWeekday(w) resolves in.
C3_WeekCycleOfResolvedDate ==
    (pc = "done" /\ resolved.tag = "Some"
       /\ expr.kind \in {"ThisWeekWeekday", "NextWeekWeekday"}) =>
        LET later == IF number_from_sunday(expr.weekday)
                           >= number_from_sunday(weekday_of(now)) THEN 0 ELSE 1
        IN  /\ expr.kind = "ThisWeekWeekday" =>
                  WeekIndex(resolved.date) = WeekIndex(now) + later
            /\ expr.kind = "NextWeekWeekday" =>
                  WeekIndex(resolved.date) = WeekIndex(now) + later + 1

\* C3 witness: from Tuesday 2024-08-13 (week of Sunday 08-11), next week's Monday is
\* 2024-08-26, two weeks after the pivot's week.
C3_Witness ==
    /\ Done("NextWeekWeekday")
    /\ now = Date(2024, 8, 13)
    /\ expr.weekday = "Mon"
    /\ resolved = Some(Date(2024, 8, 26))
    /\ WeekIndex(resolved.date) = WeekIndex(now) + 2

\* C4: with p+n days representable, Today, Tomorrow and AfterTomorrow resolve to the
\* pivot plus 0, 1 and 2 days and InNDays(n) to the pivot plus n days, counted as
\* calendar days across month and year ends.
C4_KeywordsAndInNDaysAddCalendarDays ==
    (pc = "done" /\ expr.kind \in {"Keyword", "InNDays"}) =>
        LET k == IF expr.kind = "InNDays" THEN expr.n
                 ELSE CASE expr.keyword = "Today" -> 0
                        [] expr.keyword = "Tomorrow" -> 1
                        [] expr.keyword = "AfterTomorrow" -> 2
        IN  Representable(now, k) => resolved = Some(PlusDays(now, k))

\* C4 witness: 366 days from the last day of 2023 is the last day of leap year 2024.
C4_Witness ==
    /\ Done("InNDays")
    /\ now = Date(2023, 12, 31)
    /\ expr.n = 366
    /\ resolved = Some(Date(2024, 12, 31))

\* C5: OrdinalWeekdayOfMonth(n, w, m) resolves to the n-th day of month m of the
\* pivot's year that falls on weekday w when the month has n such days, and to None
\* exactly when it has fewer.
C5_OrdinalIsNthOccurrenceOrNone ==
    Done("OrdinalWeekdayOfMonth") =>
        LET m == number_from_month(expr.month)
            n == OrdinalNumber(expr.ordinal)
        IN  IF Cardinality(Occurrences(now.year, m, expr.weekday)) >= n
            THEN resolved = Some(Date(now.year, m,
                                      NthOccurrence(now.year, m, expr.weekday, n)))
            ELSE resolved = None

\* C5 witness: February 2024 has four Mondays, so its fifth Monday is unresolvable.
C5_Witness ==
    /\ Done("OrdinalWeekdayOfMonth")
    /\ now.year = 2024
    /\ expr = OrdinalWeekdayOfMonth("Fifth", "Mon", "February")
    /\ Occurrences(2024, 2, "Mon") = {5, 12, 19, 26}
    /\ resolved = None

\* C6: a date resolved from OrdinalWeekdayOfMonth(n, w, m) lies in the pivot's year and
\* in month m, whatever the pivot's month and day.
C6_OrdinalStaysInPivotYear ==
    (Done("OrdinalWeekdayOfMonth") /\ resolved.tag = "Some") =>
        /\ resolved.date.year = now.year
        /\ resolved.date.month = number_from_month(expr.month)

\* C6 witness: a pivot in December and a month before it: the resolved date is
\* earlier than the pivot.
C6_Witness ==
    /\ Done("OrdinalWeekdayOfMonth")
    /\ now.month = 12
    /\ expr.month = "March"
    /\ resolved.tag = "Some"
    /\ resolved.date.year = now.year
    /\ DateLE(resolved.date, now) /\ resolved.date # now

\* C7 as stated: InNDays(n) against a pivot p with p+n days beyond the last
\* representable date resolves to None.
C7_InNDaysOverflowIsNone ==
    (Done("InNDays") /\ ~Representable(now, expr.n)) => resolved = None

\* C8: relative_to never returns None for a Keyword, InNDays, ThisWeekWeekday or
\* NextWeekWeekday expression.
C8_OnlyOrdinalReturnsNone ==
    (pc = "done" /\ expr.kind # "OrdinalWeekdayOfMonth") => resolved # None

\* C8 witness: a count of days that leaves the representable range: the call ends,
\* and not with None.
C8_Witness ==
    /\ Done("InNDays")
    /\ ~Representable(now, expr.n)
    /\ resolved = Panic

----------------------------------------------------------------------------
(* Properties of parse and extract_all                                     *)

Whitespace == {" ", "\t"}

\* C9: parse succeeds only when a phrase shape matched at the start of the text
\* consumes the whole text, and then returns that shape's expression; with text left
\* before or after the match (a leading or trailing space among the cases) it
\* returns an error and no expression.
C9_ParseNeedsOnePhraseOverWholeText ==
    (op = "parse" /\ pc = "done") =>
        /\ output.tag \in {"Ok", "Err"}
        /\ output.tag = "Ok" =>
              \E k \in 1..Len(Shapes) :
                  /\ shape(Shapes[k], locale, input, 1).ok
                  /\ shape(Shapes[k], locale, input, 1).pos = Len(input) + 1
                  /\ output = Ok(shape(Shapes[k], locale, input, 1).val)
        /\ (\A k \in 1..Len(Shapes) : ~shape(Shapes[k], locale, input, 1).ok) => output = Err
        /\ (\E k \in 1..Len(Shapes) :
               /\ shape(Shapes[k], locale, input, 1).ok
               /\ \A j \in 1..(k - 1) : ~shape(Shapes[j], locale, input, 1).ok
               /\ shape(Shapes[k], locale, input, 1).pos <= Len(input)) => output = Err
        /\ (input # "" /\ (CharAt(input, 1) \in Whitespace
                             \/ CharAt(input, Len(input)) \in Whitespace)) => output = Err

\* C9 witness: a keyword followed by one space is rejected.
C9_Witness ==
    /\ op = "parse" /\ pc = "done"
    /\ locale = "English"
    /\ input = "today "
    /\ shape("keyword", locale, input, 1) = POk(Keyword("Today"), 6)
    /\ output = Err

\* C10: extract_all returns a sequence, never an error: the expressions collected up
\* to the point where the grammar matches nowhere in the rest of the text, and the
\* empty sequence for a text (the empty text among them) in which it matches nowhere.
C10_ExtractAllReturnsCollected ==
    (op = "extract_all" /\ pc = "done") =>
        /\ output = Vec(items)
        /\ (\A i \in 1..(Len(input) + 1) : ~parse_next(locale, input, i).ok)
              => output = Vec(<< >>)
        /\ (\E i \in 1..(Len(input) + 1) : parse_next(locale, input, i).ok)
              => Len(output.items) >= 1
        /\ input = "" => output = Vec(<< >>)

\* C10 witness: the crate's test: a keyword, then text with no match in it; the
\* keyword's expression is returned.
C10_Witness ==
    /\ op = "extract_all" /\ pc = "done"
    /\ locale = "BrazilianPortuguese"
    /\ input = "hoje sufixo"
    /\ \A i \in 5..(Len(input) + 1) : ~parse_next(locale, input, i).ok
    /\ output = Vec(<<Keyword("Today")>>)

----------------------------------------------------------------------------
(* Texts seen as phrases and filler                                        *)

\* The grammar matches at no position of the text t taken alone.
NoMatchIn(l, t) == \A i \in 1..(Len(t) + 1) : ~parse_next(l, t, i).ok

\* The text t taken alone is one valid phrase.
IsPhrase(l, t) == parse(l, t).tag = "Ok"

\* Stretches of text looked for as the phrases and the filler of an input.
PhraseCandidates(l) ==
    IF l = "English"
    THEN {"today", "tomorrow", "day after tomorrow", "in 2 days", "next friday",
          "third sunday of september", "monday", "friday"}
    ELSE {"hoje", "amanh@", "depois de amanh@", "em 2 dias", "pr%xima sexta",
          "segunda quinta de mar$o", "quinta-feira", "segunda", "quinta"}

FillerCandidates(l) ==
    IF l = "English"
    THEN {" ", "x", "filler", "next "}
    ELSE {" ", "x", "meio", "sufixo", " de mar$o"}

Stretch(kind, t, i) == [kind |-> kind, text |-> t, at |-> i]

RECURSIVE Decompositions(_, _, _, _)
\* The ways to read s, from position i on, as phrases and filler in turn (prev is the
\* kind of the stretch before i): every phrase is a valid phrase taken alone, every
\* filler a text in which, taken alone, the grammar matches nowhere.
Decompositions(l, s, i, prev) ==
    (IF i = Len(s) + 1 THEN {<< >>} ELSE {})
      \cup UNION {{<<Stretch("phrase", t, i)>> \o d :
                      d \in Decompositions(l, s, i + Len(t), "phrase")} :
                  t \in {c \in PhraseCandidates(l) :
                            prev # "phrase" /\ literal(s, i, c).ok /\ IsPhrase(l, c)}}
      \cup UNION {{<<Stretch("filler", t, i)>> \o d :
                      d \in Decompositions(l, s, i + Len(t), "filler")} :
                  t \in {c \in FillerCandidates(l) :
                            prev # "filler" /\ literal(s, i, c).ok /\ NoMatchIn(l, c)}}

IsPhraseStretch(x) == x.kind = "phrase"

\* The expressions of the phrases of a decomposition, in order of occurrence.
PhraseExprs(l, d) ==
    LET ph == SelectSeq(d, IsPhraseStretch)
    IN  [k \in 1..Len(ph) |-> parse(l, ph[k].text).expr]

\* C11 as stated: for every reading of the text as k valid phrases separated, and
\* optionally preceded and followed, by filler in which the grammar matches nowhere,
\* extract_all returns the k expressions of the phrases, in order.
C11_ReturnsThePhrasesOfEveryReading ==
    (op = "extract_all" /\ pc = "done") =>
        \A d \in Decompositions(locale, input, 1, "start") :
            output = Vec(PhraseExprs(locale, d))

\* In the whole text s, the grammar matches at the start of every phrase of d exactly
\* that phrase, and at no position of any filler of d.
StandsApart(l, s, d) ==
    \A k \in 1..Len(d) :
        IF d[k].kind = "phrase"
        THEN parse_next(l, s, d[k].at)
                 = POk(parse(l, d[k].text).expr, d[k].at + Len(d[k].text))
        ELSE \A j \in d[k].at..(d[k].at + Len(d[k].text) - 1) : ~parse_next(l, s, j).ok

\* C11: for a reading of the text as k valid phrases and filler in which every phrase
\* is matched, in the text, from its start to its end with its own expression, and no
\* match starts inside filler, extract_all returns exactly the k expressions of the
\* phrases, in left-to-right order.
C11_ReturnsThePhrasesThatStandApart ==
    (op = "extract_all" /\ pc = "done") =>
        \A d \in Decompositions(locale, input, 1, "start") :
            StandsApart(locale, input, d) => output = Vec(PhraseExprs(locale, d))

\* C11 witness: keyword, filler, keyword: both expressions, in order.
C11_Witness ==
    /\ op = "extract_all" /\ pc = "done"
    /\ locale = "BrazilianPortuguese"
    /\ input = "hoje amanh@"
    /\ <<Stretch("phrase", "hoje", 1), Stretch("filler", " ", 5),
         Stretch("phrase", "amanh@", 6)>> \in Decompositions(locale, input, 1, "start")
    /\ output = Vec(<<Keyword("Today"), Keyword("Tomorrow")>>)

\* C12: every step of extract_all that records a match records the grammar's result at
\* the smallest position, at or after the end of the previous match, where the grammar
\* succeeds, and moves the cursor to the end of that match, which lies after its start:
\* the matched spans are in strictly increasing position and never overlap.
C12_LeftmostScan ==
    [][(op = "extract_all" /\ items' # items) =>
          /\ start <= cursor
          /\ \A j \in start..(cursor - 1) : ~parse_next(locale, input, j).ok
          /\ parse_next(locale, input, cursor).ok
          /\ items' = Append(items, parse_next(locale, input, cursor).val)
          /\ cursor' = parse_next(locale, input, cursor).pos
          /\ cursor' > cursor
          /\ start' = cursor']_vars

\* C12 witness: after one skipped character, two matches back to back, the second
\* starting where the first ended.
C12_Witness ==
    /\ op = "extract_all" /\ pc = "scan"
    /\ locale = "English"
    /\ input = "xtodaytomorrow"
    /\ parse_next(locale, input, 2) = POk(Keyword("Today"), 7)
    /\ parse_next(locale, input, 7) = POk(Keyword("Tomorrow"), 15)
    /\ items = <<Keyword("Today"), Keyword("Tomorrow")>>
    /\ cursor = 15 /\ start = 15

----------------------------------------------------------------------------
(* Properties of the grammar on phrases built from the tables              *)

ParseDone == op = "parse" /\ pc = "done"

\* The numbers the digit strings tried stand for.
DigitStringValues ==
    {<<"0", 0>>, <<"1", 1>>, <<"01", 1>>, <<"2", 2>>, <<"007", 7>>, <<"20", 20>>,
     <<"365", 365>>}

\* C13: in both locales, every literal of the number, weekday and month tables, put in
\* its phrase shape (connector, number, unit; bare, this and next weekday; ordinal,
\* weekday, of, month) and parsed by parse over the whole input, gives the expression
\* with the value the table pairs with the literal; digit strings, leading zeros
\* included, give their number.
C13_TableLiteralsYieldTheirValues ==
    ParseDone =>
        /\ \A c \in Literals(in_table(locale)), u \in UnitWords(locale) :
              /\ \A k \in 1..Len(number_table(locale)) :
                     input = c \o " " \o number_table(locale)[k][1] \o " " \o u
                         => output = Ok(InNDays(number_table(locale)[k][2]))
              /\ \A d \in DigitStringValues :
                     input = c \o " " \o d[1] \o " " \o u => output = Ok(InNDays(d[2]))
        /\ \A k \in 1..Len(weekday_table(locale)) :
              /\ input = weekday_table(locale)[k][1]
                     => output = Ok(ThisWeekWeekday(weekday_table(locale)[k][2]))
              /\ \A t \in Literals(this_table(locale)) :
                     input = t \o " " \o weekday_table(locale)[k][1]
                         => output = Ok(ThisWeekWeekday(weekday_table(locale)[k][2]))
              /\ \A n \in Literals(next_table(locale)) :
                     input = n \o " " \o weekday_table(locale)[k][1]
                         => output = Ok(NextWeekWeekday(weekday_table(locale)[k][2]))
              /\ \A o \in 1..Len(ordinal_table(locale)) :
                     input = ordinal_table(locale)[o][1] \o " " \o weekday_table(locale)[k][1]
                                 \o " " \o of_literal(locale) \o " "
                                 \o month_table(locale)[4][1]
                         => output = Ok(OrdinalWeekdayOfMonth(ordinal_table(locale)[o][2],
                                                              weekday_table(locale)[k][2],
                                                              "February"))
        /\ \A m \in 1..Len(month_table(locale)) :
              input = ordinal_table(locale)[1][1] \o " " \o weekday_table(locale)[1][1]
                          \o " " \o of_literal(locale) \o " " \o month_table(locale)[m][1]
                  => output = Ok(OrdinalWeekdayOfMonth("First", "Mon",
                                                       month_table(locale)[m][2]))

\* C13 witness: a pt-BR weekday literal of two words whose first word is also an
\* ordinal and a shorter weekday literal.
C13_Witness ==
    /\ ParseDone
    /\ locale = "BrazilianPortuguese"
    /\ input = "pr%xima segunda feira"
    /\ input = pt_br_next[1][1] \o " " \o pt_br_weekday[2][1]
    /\ output = Ok(NextWeekWeekday("Mon"))

\* Phrases of equal meaning: <<English, pt-BR>>.
Translations ==
    {<<"today", "hoje">>, <<"tomorrow", "amanh@">>,
     <<"day after tomorrow", "depois de amanh@">>,
     <<"in 2 days", "em 2 dias">>, <<"after twenty days", "daqui vinte dias">>,
     <<"friday", "sexta-feira">>, <<"this mon", "esta segunda">>,
     <<"next sat", "pr%ximo s&bado">>,
     <<"third sunday of feb", "terceiro domingo de fevereiro">>,
     <<"fifth monday of feb", "quinta segunda de fevereiro">>}

InLocale(t, l) == IF l = "English" THEN t[1] ELSE t[2]
OtherLocale(l) == IF l = "English" THEN "BrazilianPortuguese" ELSE "English"

\* e is a value of HumanDateExpr: a shape and its parameters, nothing else.
IsHumanDateExpr(e) ==
    \/ e.kind = "Keyword" /\ DOMAIN e = {"kind", "keyword"} /\ e.keyword \in HumanDateKeyword
    \/ e.kind = "InNDays" /\ DOMAIN e = {"kind", "n"} /\ e.n \in Nat
    \/ /\ e.kind \in {"ThisWeekWeekday", "NextWeekWeekday"}
       /\ DOMAIN e = {"kind", "weekday"} /\ e.weekday \in Weekdays
    \/ /\ e.kind = "OrdinalWeekdayOfMonth"
       /\ DOMAIN e = {"kind", "ordinal", "weekday", "month"}
       /\ e.ordinal \in Ordinals /\ e.weekday \in Weekdays /\ e.month \in Months

\* C14: a phrase parses to the expression value its translation parses to in the other
\* locale, a value of shape and parameters only, and so both resolve to the same date
\* against the same pivot; 'day after tomorrow' and 'depois de amanhã' parse to
\* Keyword(AfterTomorrow) and resolve to the pivot plus 2 days.
C14_TranslationsParseToEqualExprs ==
    \A t \in Translations :
        (pc = "done" /\ input = InLocale(t, locale)) =>
            /\ op = "parse" =>
                  /\ output.tag = "Ok"
                  /\ IsHumanDateExpr(output.expr)
                  /\ output = parse(OtherLocale(locale), InLocale(t, OtherLocale(locale)))
                  /\ \A p \in PhrasePivots :
                        relative_to(output.expr, p)
                            = relative_to(parse(OtherLocale(locale),
                                                InLocale(t, OtherLocale(locale))).expr, p)
                  /\ t[1] = "day after tomorrow" =>
                        /\ output = Ok(Keyword("AfterTomorrow"))
                        /\ relative_to(output.expr, now) = Some(PlusDays(now, 2))
            /\ op = "parse_relative" =>
                  /\ output = parse_relative(OtherLocale(locale),
                                             InLocale(t, OtherLocale(locale)), now)
                  /\ t[1] = "day after tomorrow" => output = Some(PlusDays(now, 2))

\* C14 witness: the pt-BR phrase of the example, parsed, gives what the English one gives.
C14_Witness ==
    /\ ParseDone
    /\ locale = "BrazilianPortuguese"
    /\ input = "depois de amanh@"
    /\ output = Ok(Keyword("AfterTomorrow"))
    /\ output = parse("English", "day after tomorrow")
    /\ relative_to(output.expr, now) = Some(Date(2024, 8, 15))

\* C15: an operation that parses a phrase and resolves it against a pivot returns, for
\* a phrase that parses to an unresolvable expression, a value different from the one
\* it returns for a grammar match failure.
C15_UnresolvableDiffersFromMatchFailure ==
    (/\ op = "parse_relative" /\ pc = "done"
     /\ parse(locale, input).tag = "Ok"
     /\ relative_to(parse(locale, input).expr, now) = None)
        => output # parse_relative_result(Err, now)

\* The order in which the shapes are tried.
PriorityOrder ==
    <<"keyword", "in_n_days", "ordinal_weekday_of_month", "this_week_weekday",
      "next_week_weekday">>

\* The pt-BR words that are both an ordinal and a weekday name.
OrdinalAndWeekday == {"segunda", "quarta", "quinta"}

\* C16: at the cursor the grammar engine fails when no shape succeeds, and otherwise
\* returns the expression and the end position of the first shape, in the order
\* keyword, in-N-days, ordinal-weekday-of-month, this-week weekday, next-week weekday,
\* that succeeds; a pt-BR phrase of 'segunda', 'quarta' or 'quinta', a weekday, 'de'
\* and a month is consumed to its end as OrdinalWeekdayOfMonth, not ThisWeekWeekday.
C16_FirstShapeInOrderWins ==
    /\ (\A k \in 1..5 : ~shape(PriorityOrder[k], locale, input, cursor).ok)
          => ~parse_next(locale, input, cursor).ok
    /\ \A k \in 1..5 :
          (/\ shape(PriorityOrder[k], locale, input, cursor).ok
           /\ \A j \in 1..(k - 1) : ~shape(PriorityOrder[j], locale, input, cursor).ok)
              => parse_next(locale, input, cursor)
                     = shape(PriorityOrder[k], locale, input, cursor)
    /\ \A o \in OrdinalAndWeekday, k \in 1..Len(pt_br_weekday) :
          (/\ locale = "BrazilianPortuguese" /\ pc = "done"
           /\ input = o \o " " \o pt_br_weekday[k][1] \o " de fevereiro") =>
              /\ shape("this_week_weekday", locale, input, 1).ok
              /\ parse_next(locale, input, 1).val.kind = "OrdinalWeekdayOfMonth"
              /\ parse_next(locale, input, 1).val.weekday = pt_br_weekday[k][2]
              /\ parse_next(locale, input, 1).pos = Len(input) + 1
              /\ op = "parse" => output = Ok(parse_next(locale, input, 1).val)
              /\ op = "extract_all" => output = Vec(<<parse_next(locale, input, 1).val>>)

\* C16 witness: 'segunda' read as the ordinal, with the this-week shape also matching.
C16_Witness ==
    /\ ParseDone
    /\ locale = "BrazilianPortuguese"
    /\ input = "segunda quinta de fevereiro"
    /\ shape("this_week_weekday", locale, input, 1) = POk(ThisWeekWeekday("Mon"), 8)
    /\ output = Ok(OrdinalWeekdayOfMonth("Second", "Thu", "February"))

\* The literal alternations of a locale.
LiteralTables(l) ==
    {keyword_table(l), in_table(l), this_table(l), next_table(l), ordinal_table(l),
     number_table(l), weekday_table(l), month_table(l)}

\* a is a proper prefix of b.
IsProperPrefix(a, b) == Len(a) < Len(b) /\ SubSeq(b, 1, Len(a)) = a

\* C17: in every literal alternation of the locale no literal is a proper prefix of a
\* literal listed after it; so, wherever a listed literal is present at the cursor, the
\* alternation consumes at least that literal.
C17_LongerLiteralListedFirst ==
    \A T \in LiteralTables(locale) :
        /\ \A j \in 1..Len(T), k \in 1..Len(T) :
              j < k => ~IsProperPrefix(T[j][1], T[k][1])
        /\ \A k \in 1..Len(T) :
              literal(input, cursor, T[k][1]).ok
                  => alt_literals(input, cursor, T).pos >= cursor + Len(T[k][1])

\* C17 witness: 'fourteen', listed before its prefix 'four', is read whole.
C17_Witness ==
    /\ ParseDone
    /\ locale = "English"
    /\ input = "in fourteen days"
    /\ \E j \in 1..Len(en_number), k \in 1..Len(en_number) :
          /\ j < k /\ en_number[j][1] = "fourteen" /\ en_number[k][1] = "four"
          /\ IsProperPrefix(en_number[k][1], en_number[j][1])
    /\ alt_literals(input, 4, en_number) = POk(14, 12)
    /\ output = Ok(InNDays(14))

\* The phrase of tokens t written with single spaces.
Spaced(t) == Join(t, " ", " ")

\* Every gap between the tokens of t, written with g1 and g2 in turn, is non-empty.
NoGapMissing(t, g1, g2) == g1 # "" /\ (Len(t) > 2 => g2 # "")

\* C18: a phrase of several tokens is matched with any run of one or more spaces and
\* tabs in each gap between its tokens, to the same expression as with single spaces;
\* with an empty gap its shape does not match and parse fails; a run before the
\* phrase makes the grammar fail at the start of the text, and a run after the phrase
\* is left unconsumed by the match, so parse fails in both cases.
C18_GapsAreRunsOfSpacesAndTabs ==
    \A t \in TokenPhrases(locale) :
        /\ \A g1 \in GapsOrNone, g2 \in GapsOrNone :
              input = Join(t, g1, g2) =>
                  /\ ParseDone =>
                        /\ output.tag = "Ok" <=> NoGapMissing(t, g1, g2)
                        /\ output.tag = "Ok" => output = parse(locale, Spaced(t))
                  /\ \A k \in 1..Len(Shapes) :
                        (/\ shape(Shapes[k], locale, Spaced(t), 1).ok
                         /\ shape(Shapes[k], locale, Spaced(t), 1).pos = Len(Spaced(t)) + 1)
                            => (shape(Shapes[k], locale, input, 1).ok
                                    <=> NoGapMissing(t, g1, g2))
        /\ \A g \in Gaps :
              /\ input = g \o Spaced(t) =>
                    /\ ~parse_next(locale, input, 1).ok
                    /\ ParseDone => output = Err
              /\ input = Spaced(t) \o g =>
                    /\ parse_next(locale, input, 1) = parse_next(locale, Spaced(t), 1)
                    /\ parse_next(locale, input, 1).pos = Len(Spaced(t)) + 1
                    /\ ParseDone => output = Err

\* C18 witness: a space and a tab in one gap, two spaces in the other.
C18_Witness ==
    /\ ParseDone
    /\ locale = "English"
    /\ input = "in \t2  days"
    /\ input = Join(<<"in", "2", "days">>, " \t", "  ")
    /\ output = Ok(InNDays(2))

\* The token w is an entry, exactly as authored, of the part of the grammar it stands for.
Listed(l, part, w) ==
    CASE part = "keyword" -> w \in Literals(keyword_table(l))
      [] part = "in" -> w \in Literals(in_table(l))
      [] part = "number" -> w \in Literals(number_table(l))
      [] part = "day" -> w \in UnitWords(l)
      [] part = "next" -> w \in Literals(next_table(l))
      [] part = "weekday" -> w \in Literals(weekday_table(l))
      [] part = "ordinal" -> w \in Literals(ordinal_table(l))
      [] part = "of" -> w = of_literal(l)
      [] part = "month" -> w \in Literals(month_table(l))

\* C19: a phrase whose tokens are respelled in letter case or accents (one token or all
\* of them) is parsed exactly when every respelled token is itself an entry of its
\* table: 'Today' and 'amanha' are not, pt-BR 'terca', 'sabado' and 'proxima' are.
C19_LiteralsMatchAsAuthored ==
    \A ph \in KindPhrases(locale), k \in 0..4, v \in SpellingKinds :
        (ParseDone /\ input = Join(RespelledTokens(ph, k, v), " ", " ")) =>
            (output.tag = "Ok"
                <=> \A j \in 1..Len(ph) :
                        Listed(locale, ph[j][1], RespelledTokens(ph, k, v)[j]))

\* C19 witness: 'amanhã' without its accent is not a keyword.
C19_Witness ==
    /\ ParseDone
    /\ locale = "BrazilianPortuguese"
    /\ input = "amanha"
    /\ input = Unaccented(pt_br_keyword[2][1])
    /\ input # pt_br_keyword[2][1]
    /\ output = Err

----------------------------------------------------------------------------
(* Phrases inside words                                                    *)

\* Letters, with no match in them, written right against a phrase.
Letters(l) == IF l = "English" THEN {"x", "filler"} ELSE {"x", "meio", "sufixo"}

\* The text s is exactly a \o b \o c.
IsConcat(s, a, b, c) ==
    /\ Len(s) = Len(a) + Len(b) + Len(c)
    /\ literal(s, 1, a).ok
    /\ literal(s, 1 + Len(a), b).ok
    /\ literal(s, 1 + Len(a) + Len(b), c).ok

----------------------------------------------------------------------------
(* Termination of the scan                                                 *)

\* A step of the scan of extract_all skips exactly one character and records nothing,
\* or records one match and moves the cursor forward to its end, or, with the input
\* exhausted and no match there, ends the scan.
ScanStep ==
    Scanning =>
        \/ /\ pc' = "scan"
           /\ cursor' = cursor + 1 /\ cursor <= Len(input)
           /\ items' = items
        \/ /\ pc' = "scan"
           /\ cursor' > cursor /\ cursor' <= Len(input) + 1
           /\ Len(items') = Len(items) + 1
        \/ /\ pc' = "done"
           /\ cursor = Len(input) + 1
           /\ ~parse_next(locale, input, cursor).ok

\* Characters from the cursor to the end of the input: the scan's distance to its end.
Remaining == Len(input) + 1 - cursor

\* C21: extract_all terminates on every input: every step of the scan skips exactly
\* one character or consumes a non-empty match, so the cursor strictly advances and
\* the distance to the end of the input strictly decreases (the grammar engine,
\* invoked at the cursor of each step, is invoked at most once per position); the
\* distance is never negative; before the end a step is always possible; and the scan
\* ends at the step taken with the input exhausted.
C21_ExtractAllTerminates ==
    /\ [][ScanStep]_vars
    /\ [][(Scanning /\ pc' = "scan") => Remaining' < Remaining]_vars
    /\ [](Remaining >= 0)
    /\ [](Scanning =>
             \/ parse_next(locale, input, cursor).ok
             \/ any(input, cursor).ok
             \/ Remaining = 0)

\* C21 witness: a scan that skipped, matched, skipped again and ended.
C21_Witness ==
    /\ op = "extract_all" /\ pc = "done"
    /\ input = "xtodayx"
    /\ locale = "English"
    /\ items = <<Keyword("Today")>>
    /\ start = 7
    /\ output = Vec(items)

----------------------------------------------------------------------------
(* The grammar read as unordered alternatives: a parser gives the set of    *)
(* all its results at a cursor, one for each choice among the literals of  *)
(* an alternation, for an optional part taken or left out, and for each    *)
(* shape.  Runs of spaces and of digits are single tokens, as in the       *)
(* engine.                                                                 *)

AnyLiteral(s, i, table) ==
    {POk(table[k][2], i + Len(table[k][1])) :
        k \in {x \in 1..Len(table) : literal(s, i, table[x][1]).ok}}

OneOrNone(r) == IF r.ok THEN {r} ELSE {}

RECURSIVE AnyTuple(_, _, _, _)
RECURSIVE AnyElement(_, _, _, _)

AnyTuple(l, s, i, elements) ==
    IF elements = << >> THEN {POk(<< >>, i)}
    ELSE UNION {{POk(<<r.val>> \o t.val, t.pos) :
                    t \in AnyTuple(l, s, r.pos, Tail(elements))} :
                r \in AnyElement(Head(elements), l, s, i)}

AnyElement(name, l, s, i) ==
    CASE name = "space1" -> OneOrNone(space1(s, i))
      [] name = "in" -> AnyLiteral(s, i, in_table(l))
      [] name = "number" ->
            OneOrNone(digit_number(s, i)) \cup AnyLiteral(s, i, number_table(l))
      [] name = "day" -> OneOrNone(literal(s, i, day_literal(l)))
      [] name = "opt(s)" -> {POk("", i)} \cup OneOrNone(literal(s, i, "s"))
      [] name = "this" -> AnyLiteral(s, i, this_table(l))
      [] name = "opt((this, space1))" ->
            {POk("", i)} \cup {POk("", t.pos) : t \in AnyTuple(l, s, i, <<"this", "space1">>)}
      [] name = "next" -> AnyLiteral(s, i, next_table(l))
      [] name = "ordinal" -> AnyLiteral(s, i, ordinal_table(l))
      [] name = "weekday" -> AnyLiteral(s, i, weekday_table(l))
      [] name = "of" -> OneOrNone(literal(s, i, of_literal(l)))
      [] name = "month" -> AnyLiteral(s, i, month_table(l))

\* The results of each shape, as expressions.
AnyShape(l, s, i) ==
    {POk(Keyword(r.val), r.pos) : r \in AnyLiteral(s, i, keyword_table(l))}
      \cup {POk(InNDays(r.val[3]), r.pos) :
               r \in AnyTuple(l, s, i, <<"in", "space1", "number", "space1", "day",
                                         "opt(s)">>)}
      \cup {POk(OrdinalWeekdayOfMonth(r.val[1], r.val[3], r.val[7]), r.pos) :
               r \in AnyTuple(l, s, i, <<"ordinal", "space1", "weekday", "space1", "of",
                                         "space1", "month">>)}
      \cup {POk(ThisWeekWeekday(r.val[2]), r.pos) :
               r \in AnyTuple(l, s, i, <<"opt((this, space1))", "weekday">>)}
      \cup {POk(NextWeekWeekday(r.val[3]), r.pos) :
               r \in AnyTuple(l, s, i, <<"next", "space1", "weekday">>)}

\* The expressions of the readings that consume the whole text.
WholeTextReadings(l, s) == {r.val : r \in {x \in AnyShape(l, s, 1) : x.pos = Len(s) + 1}}

\* C22: parse succeeds exactly when some shape, with some choice among its literal
\* alternatives, consumes the whole text, and it returns the expression of that
\* reading, which is the only one: the first-match engine and the grammar read as
\* unordered alternatives accept the same whole inputs with the same value.
C22_OrderedChoiceAcceptsEveryPhrase ==
    ParseDone =>
        /\ output.tag = "Ok" <=> WholeTextReadings(locale, input) # {}
        /\ output.tag = "Ok" => WholeTextReadings(locale, input) = {output.expr}

\* C22 witness: a text with three pt-BR weekday literals and an ordinal to choose from
\* at its start, of which only the longest weekday leads to the end of the text.
C22_Witness ==
    /\ ParseDone
    /\ locale = "BrazilianPortuguese"
    /\ input = "segunda feira"
    /\ AnyLiteral(input, 1, pt_br_weekday) = {POk("Mon", 4), POk("Mon", 8), POk("Mon", 14)}
    /\ AnyLiteral(input, 1, pt_br_ordinal) # {}
    /\ WholeTextReadings(locale, input) = {ThisWeekWeekday("Mon")}
    /\ output = Ok(ThisWeekWeekday("Mon"))

----------------------------------------------------------------------------
(* Which ordinals resolve                                                  *)

\* C23: OrdinalWeekdayOfMonth(n, w, m) with ordinal First to Fourth always resolves, to
\* a date of weekday w whose day of month lies in [7(n-1)+1, 7n]; with ordinal Fifth it
\* resolves exactly when month m of the pivot's year has a day 29 or later that falls
\* on w, and then to such a day.
C23_FirstToFourthAlwaysResolve ==
    Done("OrdinalWeekdayOfMonth") =>
        /\ expr.ordinal \in {"First", "Second", "Third", "Fourth"} =>
              /\ resolved.tag = "Some"
              /\ resolved.date.day >= 7 * (OrdinalNumber(expr.ordinal) - 1) + 1
              /\ resolved.date.day <= 7 * OrdinalNumber(expr.ordinal)
              /\ weekday_of(resolved.date) = expr.weekday
        /\ expr.ordinal = "Fifth" =>
              /\ resolved.tag \in {"Some", "None"}
              /\ resolved.tag = "Some"
                    <=> \E d \in 29..DaysInMonth(now.year, number_from_month(expr.month)) :
                            weekday_of(Date(now.year, number_from_month(expr.month), d))
                                = expr.weekday
              /\ resolved.tag = "Some" =>
                    /\ resolved.date.day >= 29
                    /\ weekday_of(resolved.date) = expr.weekday
        /\ resolved = None => expr.ordinal = "Fifth"

\* C23 witness: 2024-02-29 is a Thursday, so the fifth Thursday of February resolves in
\* the leap year 2024.
C23_Witness ==
    /\ Done("OrdinalWeekdayOfMonth")
    /\ now.year = 2024
    /\ expr = OrdinalWeekdayOfMonth("Fifth", "Thu", "February")
    /\ weekday_of(Date(2024, 2, 29)) = "Thu"
    /\ resolved = Some(Date(2024, 2, 29))

----------------------------------------------------------------------------
(* The forms of the month names                                            *)

\* C24: in the pt-BR month table each of the twelve months is accepted in three forms,
\* each mapping to that month: the full name, the three-letter abbreviation followed by
\* a period, and the three-letter abbreviation without a period.
C24_EachMonthInThreeForms ==
    \A m \in Months : \A f \in MonthForms("BrazilianPortuguese", m) :
        (ParseDone /\ locale = "BrazilianPortuguese"
                   /\ input = MonthFormText("BrazilianPortuguese", f)) =>
            output = Ok(OrdinalWeekdayOfMonth(pt_br_ordinal[1][2], pt_br_weekday[1][2], m))

====
